---- MODULE Spec2Model ----
(***************************************************************************)
(* ClaudeUp (src/claudeup.py): one command-line run creates or fetches a   *)
(* GitHub repository, grants an automation actor access to it, points a    *)
(* local git working copy at it, scaffolds README.md and .gitignore,       *)
(* commits and pushes.  The model holds the remote account, the local      *)
(* working copy and the position of the current run; the answers of the    *)
(* remote service and the exit codes of git are the inputs of each step.   *)
(* Strings the code inspects (messages, URLs, slugs) are sequences of      *)
(* characters.                                                             *)
(***************************************************************************)
EXTENDS Integers, Sequences, FiniteSets, TLC

\* ------------------------------------------------------------ bounds

\* Number of runs of the command line in one behaviour.
MaxRuns == 2

\* ------------------------------------------------------------ strings

UPPER == <<"A","B","C","D","E","F","G","H","I","J","K","L","M","N","O","P","Q","R","S","T","U","V","W","X","Y","Z">>
LOWER == <<"a","b","c","d","e","f","g","h","i","j","k","l","m","n","o","p","q","r","s","t","u","v","w","x","y","z">>

\* str.lower() on one character.
LowerChar(c) ==
    IF \E i \in 1..Len(UPPER) : UPPER[i] = c
    THEN LOWER[CHOOSE i \in 1..Len(UPPER) : UPPER[i] = c]
    ELSE c

\* str.lower()
Lower(s) == [i \in 1..Len(s) |-> LowerChar(s[i])]

\* sub in s
Contains(s, sub) ==
    \E i \in 0..(Len(s) - Len(sub)) : SubSeq(s, i + 1, i + Len(sub)) = sub

\* s.startswith(p)
StartsWith(s, p) == Len(s) >= Len(p) /\ SubSeq(s, 1, Len(p)) = p

\* s.replace(old, new), old not empty: every non-overlapping occurrence,
\* left to right.
RECURSIVE Replace(_, _, _)
Replace(s, old, new) ==
    IF Len(s) < Len(old) THEN s
    ELSE IF SubSeq(s, 1, Len(old)) = old
         THEN new \o Replace(SubSeq(s, Len(old) + 1, Len(s)), old, new)
         ELSE <<s[1]>> \o Replace(Tail(s), old, new)

HTTPS_PREFIX == <<"h","t","t","p","s",":","/","/","g","i","t","h","u","b",".","c","o","m","/">>
SSH_PREFIX == <<"g","i","t","@","g","i","t","h","u","b",".","c","o","m",":">>
ALREADY_EXISTS == <<"a","l","r","e","a","d","y"," ","e","x","i","s","t","s">>
UNKNOWN_ERROR == <<"U","n","k","n","o","w","n"," ","e","r","r","o","r">>

\* ------------------------------------------------------------ inputs

\* --claude-username and --app-slug, at their defaults.  Of --installation-id
\* 0 stands for the option left out (None).
DefaultUsername == <<"c","l","a","u","d","e","-","c","o","d","e","-","a","p","p">>
DefaultAppSlug == <<"c","l","a","u","d","e">>

\* A command line (main, lines 478-528) with the token main resolves at
\* line 531 (token: --token or GITHUB_TOKEN is set).  instructions is the
\* text of a second positional argument, "" when there is none.
Args(name, desc, token, no_collaborator, no_app, installation_id, public) ==
    [ repo_name |-> name, description |-> desc, token |-> token,
      no_collaborator |-> no_collaborator, no_app |-> no_app,
      installation_id |-> installation_id, claude_username |-> DefaultUsername,
      app_slug |-> DefaultAppSlug, public |-> public, instructions |-> "" ]

\* The command lines of the model: the defaults, each option on its own,
\* both grants switched off, a second repository name, and a command line
\* with free-text instructions after the repository name.
ArgSets ==
    { Args(<<"d","e","m","o">>, "", TRUE, FALSE, FALSE, 0, FALSE),
      Args(<<"d","e","m","o">>, "", FALSE, FALSE, FALSE, 0, FALSE),
      Args(<<"d","e","m","o">>, "", TRUE, TRUE, FALSE, 0, FALSE),
      Args(<<"d","e","m","o">>, "", TRUE, FALSE, TRUE, 0, FALSE),
      Args(<<"d","e","m","o">>, "", TRUE, TRUE, TRUE, 0, FALSE),
      Args(<<"d","e","m","o">>, "", TRUE, TRUE, FALSE, 7, FALSE),
      Args(<<"d","e","m","o">>, "", TRUE, TRUE, TRUE, 0, TRUE),
      Args(<<"l","a","b">>, "a tool", TRUE, TRUE, TRUE, 0, FALSE),
      [ Args(<<"d","e","m","o">>, "", TRUE, TRUE, TRUE, 0, FALSE) EXCEPT
          !.instructions = "add a login page" ] }

NoArgs ==
    [ repo_name |-> <<>>, description |-> "", token |-> FALSE,
      no_collaborator |-> FALSE, no_app |-> FALSE, installation_id |-> 0,
      claude_username |-> <<>>, app_slug |-> <<>>, public |-> FALSE,
      instructions |-> "" ]

\* ------------------------------------------------------------ remote

\* Login of the account the token authenticates.
Login == <<"a","c","m","e">>

\* Bodies of the "message" field of a 422 answer to POST /user/repos.
MsgExists == <<"n","a","m","e"," ","a","l","r","e","a","d","y"," ","e","x","i","s","t","s"," ","o","n"," ","t","h","i","s"," ","a","c","c","o","u","n","t">>
MsgExistsCaps == <<"N","a","m","e"," ","A","l","r","e","a","d","y"," ","E","x","i","s","t","s">>
MsgFailed == <<"R","e","p","o","s","i","t","o","r","y"," ","c","r","e","a","t","i","o","n"," ","f","a","i","l","e","d",".">>

\* An answer to POST /user/repos: status, and the JSON body's "message"
\* (has_message FALSE when the body holds none).
CreateResponse(status, has, msg) ==
    [ status |-> status, has_message |-> has, message |-> msg ]

\* The repository descriptor the API returns for an account entry.
Descriptor(r) ==
    [ id |-> r.id,
      name |-> r.name,
      full_name |-> Login \o <<"/">> \o r.name,
      html_url |-> HTTPS_PREFIX \o Login \o <<"/">> \o r.name,
      clone_url |-> HTTPS_PREFIX \o Login \o <<"/">> \o r.name \o <<".","g","i","t">>,
      private |-> r.private ]

NoRepo ==
    [ id |-> 0, name |-> <<>>, full_name |-> <<>>, html_url |-> <<>>,
      clone_url |-> <<>>, private |-> FALSE ]

\* ------------------------------------------------------------ state

VARIABLES
    account,     \* the remote account: its repositories, in creation order
    gitDir,      \* whether path/.git exists
    remotes,     \* the working copy's remotes: a sequence of [name, url]
    files,       \* the working tree: file name -> content
    index,       \* the staged tree
    commits,     \* the commits of the working copy: [tree, parent]
    branches,    \* local branch name -> commit (0: no such branch)
    head,        \* the branch the working copy is on
    pc,          \* the position of the current run
    args,        \* the command line of the current run
    repoData,    \* setup's repo_data
    calls,       \* requests and git commands issued by the last step
    steps,       \* methods setup has called in the current run
    warnings,    \* the warnings the current run printed
    exitCode,    \* the process's exit code (-1: none yet)
    reported,    \* the completion summary was printed
    edited,      \* the operator changed a file since the last run
    created,     \* repository name -> id the call that created it returned
    rerun,       \* the current run repeats the last one (see Main)
    runs         \* number of runs started

vars ==
    << account, gitDir, remotes, files, index, commits, branches, head, pc,
       args, repoData, calls, steps, warnings, exitCode, reported,
       edited, created, rerun, runs >>

remoteVars == << account >>
localVars == << gitDir, remotes, files, index, commits, branches, head >>

\* One request or git command with its status code or exit code (and, of an
\* answer to POST /user/repos, the message; of an answered listing, the
\* installations listed; of an attach, the installation id in its URL).
Call(op, st) ==
    [ op |-> op, st |-> st, has_message |-> FALSE, message |-> <<>>, listed |-> <<>>,
      target |-> 0 ]
Post(resp) ==
    [ Call("POST /user/repos", resp.status) EXCEPT
        !.has_message = resp.has_message, !.message = resp.message ]
Listing(status, listed) ==
    [ Call("GET /user/installations", status) EXCEPT
        !.listed = IF status = 200 THEN listed ELSE <<>> ]
Attach(installation_id, status) ==
    [ Call("PUT /user/installations", status) EXCEPT !.target = installation_id ]

\* ------------------------------------------------------------ create

\* The answers the remote can give to POST /user/repos for `name`: 201
\* (the name is free), 422 with a conflict message (the name is taken), and
\* at any time 422 with another or no message, or another status.
CreateAnswers(name) ==
    (IF \E i \in 1..Len(account) : account[i].name = name
     THEN { CreateResponse(422, TRUE, MsgExists), CreateResponse(422, TRUE, MsgExistsCaps) }
     ELSE { CreateResponse(201, FALSE, <<>>) })
    \cup { CreateResponse(422, TRUE, MsgFailed), CreateResponse(422, FALSE, <<>>),
           CreateResponse(403, FALSE, <<>>), CreateResponse(500, FALSE, <<>>) }

\* GET /user
UserStatuses == { 200, 401 }

\* GET /repos/{login}/{name}: 200 only while the account holds the name.
RepoStatuses(name) ==
    (IF \E i \in 1..Len(account) : account[i].name = name THEN { 200 } ELSE {})
    \cup { 404 }

\* The account's entry a 201 adds for the request `data`.
NewEntry(data) ==
    [ id |-> Len(account) + 1, name |-> data.name, private |-> data.private, main |-> 0 ]

\* The account's entry named `name` (the first, should there be several).
EntryOf(name) ==
    account[CHOOSE i \in 1..Len(account) :
                /\ account[i].name = name
                /\ \A j \in 1..(i - 1) : account[j].name # name]

\* The method's outcome: raised, or the value returned, with the calls made.
Raised(made) == [ raised |-> TRUE, value |-> NoRepo, calls |-> made ]
Returned(v, made) == [ raised |-> FALSE, value |-> v, calls |-> made ]

\* get_repository: GET /user, then GET /repos/{login}/{name}.
get_repository(repo_name, us, rs) ==
    IF us # 200
    THEN Raised(<< Call("GET /user", us) >>)
    ELSE IF rs = 200
         THEN Returned(Descriptor(EntryOf(repo_name)),
                       << Call("GET /user", us), Call("GET /repos", rs) >>)
         ELSE Raised(<< Call("GET /user", us), Call("GET /repos", rs) >>)

\* response.json().get("message", "Unknown error")
ErrorMsg(resp) == IF resp.has_message THEN resp.message ELSE UNKNOWN_ERROR

\* The test of line 79 without .lower().
AlreadyExistsCaseSensitive(error_msg) == Contains(error_msg, ALREADY_EXISTS)

\* create_repository, line 79: "already exists" in error_msg.lower()
AlreadyExists(error_msg) == Contains(Lower(error_msg), ALREADY_EXISTS)

\* A create_repository that posts a second time when the first POST is
\* answered by a server error.
create_repository_retry(data, resp, us, rs) ==
    IF resp.status = 201
    THEN Returned(Descriptor(NewEntry(data)), << Post(resp) >>)
    ELSE IF resp.status = 422
         THEN IF AlreadyExists(ErrorMsg(resp))
              THEN LET g == get_repository(data.name, us, rs) IN
                   [ g EXCEPT !.calls = << Post(resp) >> \o g.calls ]
              ELSE Raised(<< Post(resp) >>)
         ELSE Raised(<< Post(resp), Post(resp) >>)

\* A create_repository that raises on every 422.
create_repository_no_fallback(data, resp, us, rs) ==
    IF resp.status = 201
    THEN Returned(Descriptor(NewEntry(data)), << Post(resp) >>)
    ELSE Raised(<< Post(resp) >>)

\* create_repository: the branch on the answer `resp` to the POST of `data`.
create_repository(data, resp, us, rs) ==
    LET post == << Post(resp) >> IN
    IF resp.status = 201
    THEN Returned(Descriptor(NewEntry(data)), post)
    ELSE IF resp.status = 422
         THEN IF AlreadyExists(ErrorMsg(resp))
              THEN LET g == get_repository(data.name, us, rs) IN
                   [ g EXCEPT !.calls = post \o g.calls ]
              ELSE Raised(post)
         ELSE Raised(post)

\* setup's call: create_repository(repo_name, description), private left at
\* its default.
CreateData(a) ==
    [ name |-> a.repo_name, description |-> a.description, private |-> TRUE,
      auto_init |-> FALSE ]

\* A setup that invites the collaborator before it installs the app.
AfterCreateCollaboratorFirst(a) ==
    IF ~a.no_collaborator /\ a.claude_username # <<>> THEN "collab"
    ELSE IF ~a.no_app THEN "app"
    ELSE "init"

\* What setup does after create_repository returned.
AfterCreate(a) ==
    IF ~a.no_app THEN "app"
    ELSE IF ~a.no_collaborator /\ a.claude_username # <<>> THEN "collab"
    ELSE "init"

\* What setup does after the app grant.
AfterApp(a) ==
    IF ~a.no_collaborator /\ a.claude_username # <<>> THEN "collab" ELSE "init"

\* ------------------------------------------------------------ grants

\* PUT /repos/{full_name}/collaborators/{username}
CollaboratorStatuses == { 201, 204, 404, 403 }

\* add_collaborator: TRUE exactly on 201 and 204; never raises.
add_collaborator(status) == status \in { 201, 204 }

\* An installation as GET /user/installations lists it (app_slug <<>>: the
\* entry has none).
Installation(id, slug, login) == [ id |-> id, app_slug |-> slug, login |-> login ]

NoInstallation == Installation(0, <<>>, <<>>)

InstClaude == Installation(7, <<"c","l","a","u","d","e">>, <<"a","c","m","e">>)
InstActions == Installation(9, <<"g","i","t","h","u","b","-","a","c","t","i","o","n","s">>, <<"a","c","m","e">>)
\* Another app, installed on an account whose login holds the slug.
InstDeploy == Installation(3, <<"d","e","p","l","o","y">>, <<"c","l","a","u","d","e","-","t","e","a","m">>)
\* An entry without app_slug, on an account whose login holds the slug.
InstLogin == Installation(5, <<>>, <<"C","l","a","u","d","e","-","B","o","t">>)

\* The lists the remote can answer GET /user/installations with.
InstallationLists ==
    { <<>>, << InstActions >>, << InstActions, InstClaude >>,
      << InstDeploy, InstClaude >>, << InstLogin, InstClaude >> }

\* GET /user/installations
ListStatuses == { 200, 403 }

\* PUT /user/installations/{id}/repositories/{repo_id}
AttachStatuses == { 204, 304, 404 }

\* list_installations: the listed installations on 200, else none.
list_installations(status, listed) == IF status = 200 THEN listed ELSE <<>>

\* Line 167 without the fallback to the account's login.
AppOfSlugOnly(installation) == installation.app_slug

\* installation.get("app_slug") or installation.get("account", {}).get("login", "")
AppOf(installation) ==
    IF installation.app_slug # <<>> THEN installation.app_slug ELSE installation.login

\* find_app_installation: the first installation whose app contains the slug.
find_app_installation(app_slug, installations) ==
    LET hits == { i \in 1..Len(installations) :
                      Contains(Lower(AppOf(installations[i])), Lower(app_slug)) }
    IN  IF hits = {} THEN NoInstallation
        ELSE installations[CHOOSE i \in hits : \A j \in hits : i <= j]

\* An add_repo_to_app_installation without the 304 branch.
add_repo_to_app_installation_204(status) == status \in { 204 }

\* add_repo_to_app_installation
add_repo_to_app_installation(status) == status \in { 204 } \/ status = 304

\* install_github_app: [ok, calls]; never raises.
install_github_app(repo_data, app_slug, installation_id, ls, listed, as) ==
    IF installation_id # 0
    THEN IF repo_data.id = 0
         THEN [ ok |-> FALSE, calls |-> <<>> ]
         ELSE [ ok |-> add_repo_to_app_installation(as),
                calls |-> << Attach(installation_id, as) >> ]
    ELSE LET installation == find_app_installation(app_slug, list_installations(ls, listed))
             listing == << Listing(ls, listed) >>
         IN  IF installation = NoInstallation
             THEN [ ok |-> FALSE, calls |-> listing ]
             ELSE IF installation.id = 0 \/ repo_data.id = 0
                  THEN [ ok |-> FALSE, calls |-> listing ]
                  ELSE [ ok |-> add_repo_to_app_installation(as),
                         calls |-> listing \o << Attach(installation.id, as) >> ]

\* ------------------------------------------------------------ workspace

\* The paths of the working directory: the two files the scaffold writes,
\* a source file of the operator, and a file in a hidden directory.
InstructionsFile == ".notes/instructions.md"
FileNames == { "README.md", ".gitignore", "main.py", InstructionsFile }
BranchNames == { "main", "master" }

\* File contents: none, the operator's own text, or one of the templates.
Absent == [ kind |-> "absent", name |-> <<>>, text |-> "" ]
UserText(t) == [ kind |-> "user", name |-> <<>>, text |-> t ]

\* The README template of create_initial_files, lines 315-326.
ReadmeContent(repo_name, description) ==
    [ kind |-> "readme", name |-> repo_name,
      text |-> IF description # "" THEN description ELSE "A project created with ClaudeUp" ]

\* The .gitignore template, lines 333-360.
GitignoreContent == [ kind |-> "gitignore", name |-> <<>>, text |-> "" ]

EmptyTree == [ f \in FileNames |-> Absent ]

\* The tree of commit c of the commits cs (0: no commit).
TreeOf2(cs, c) == IF c = 0 THEN EmptyTree ELSE cs[c].tree

\* The tree of commit c of the working copy.
TreeOf(c) == TreeOf2(commits, c)

\* The remote named "origin", if any.
OriginIndexes == { i \in 1..Len(remotes) : remotes[i].name = "origin" }

\* The SSH address init_local_repo computes from the clone URL.
SshUrl(clone_url) ==
    IF StartsWith(clone_url, HTTPS_PREFIX)
    THEN Replace(clone_url, HTTPS_PREFIX, SSH_PREFIX)
    ELSE clone_url

\* git's exit codes for a command run with check=True: 0, or a failure.
GitExitCodes == { 0, 128 }

\* In the commits cs, c is d or one of d's ancestors (0, no commit, is
\* everyone's ancestor).
RECURSIVE Ancestor(_, _, _)
Ancestor(cs, c, d) ==
    \/ c = 0
    \/ c = d
    \/ d # 0 /\ Ancestor(cs, c, cs[d].parent)

\* The account's repositories `url` addresses over SSH.
ReposAt(url) ==
    { i \in 1..Len(account) :
          SSH_PREFIX \o Login \o <<"/">> \o account[i].name \o <<".","g","i","t">> = url }

\* subprocess.run without check=True: no exit code raises.
Unchecked(rc) == FALSE

\* subprocess.run(..., check=True) raises CalledProcessError on a non-zero
\* exit code.
Checked(rc) == rc # 0

\* An init_local_repo that always adds origin.
RemoteExistsNever(getRc) == FALSE

\* init_local_repo, line 301: origin exists when get-url exits 0.
RemoteExists(getRc) == getRc = 0

\* init_local_repo: git init when there is no .git, then origin set to the
\* SSH address: set-url when `git remote get-url origin` exits 0, else add.
\* initRc and cfgRc are the exit codes git gives to init and to set-url or
\* add (git itself refuses to add a remote that exists, and to set the URL
\* of one that does not); defaultBranch is the branch a fresh git init
\* starts on.
init_local_repo(repo_data, initRc, cfgRc, defaultBranch) ==
    LET ssh_url == SshUrl(repo_data.clone_url)
        initCalls == IF gitDir THEN <<>> ELSE << Call("git init", initRc) >>
        getRc == IF OriginIndexes # {} THEN 0 ELSE 2
        head1 == IF gitDir THEN head ELSE defaultBranch
        update == RemoteExists(getRc)
        cfgOp == IF update THEN "git remote set-url" ELSE "git remote add"
        rc == IF update = (OriginIndexes # {}) THEN cfgRc ELSE 3
        allCalls == initCalls \o << Call("git remote get-url", getRc), Call(cfgOp, rc) >>
    IN  IF ~gitDir /\ Checked(initRc)
        THEN [ raised |-> TRUE, gitDir |-> gitDir, head |-> head, remotes |-> remotes,
               calls |-> initCalls ]
        ELSE IF Checked(rc)
        THEN [ raised |-> TRUE, gitDir |-> TRUE, head |-> head1, remotes |-> remotes,
               calls |-> allCalls ]
        ELSE IF update
        THEN [ raised |-> FALSE, gitDir |-> TRUE, head |-> head1,
               remotes |-> [ i \in 1..Len(remotes) |->
                                IF remotes[i].name = "origin"
                                THEN [ name |-> "origin", url |-> ssh_url ]
                                ELSE remotes[i] ],
               calls |-> allCalls ]
        ELSE [ raised |-> FALSE, gitDir |-> TRUE, head |-> head1,
               remotes |-> Append(remotes, [ name |-> "origin", url |-> ssh_url ]),
               calls |-> allCalls ]

\* A scaffold that takes every file for missing.
ExistsNever(content) == FALSE

\* Path.exists(), lines 314 and 332.
Exists(content) == content # Absent

\* create_initial_files: each of README.md and .gitignore is written when
\* it does not exist.
create_initial_files(repo_name, description) ==
    LET readme == ~Exists(files["README.md"])
        ignore == ~Exists(files[".gitignore"])
    IN  [ files |-> [ f \in FileNames |->
                        IF f = "README.md" /\ readme
                        THEN ReadmeContent(repo_name, description)
                        ELSE IF f = ".gitignore" /\ ignore
                        THEN GitignoreContent
                        ELSE files[f] ],
          calls |-> (IF readme THEN << Call("write README.md", 0) >> ELSE <<>>)
                    \o (IF ignore THEN << Call("write .gitignore", 0) >> ELSE <<>>) ]

\* The state of the working copy and of the remote branch that
\* commit_and_push leaves, with the calls made and whether it raised.
GitState(raised, fs, ix, cs, bs, h, acc, made) ==
    [ raised |-> raised, files |-> fs, index |-> ix, commits |-> cs,
      branches |-> bs, head |-> h, account |-> acc, calls |-> made ]

\* A commit_and_push without the early return.
NothingToCommitNever(rc) == FALSE

\* commit_and_push, line 375: exit code 0 of git diff --cached --quiet
\* means nothing is staged.
NothingToCommit(rc) == rc = 0

\* commit_and_push(branch): add, diff --cached --quiet, commit, branch
\* --show-current, checkout [-b] when not on `branch`, push.  addRc,
\* commitRc, showRc, checkoutRc, pushRc are the exit codes git gives (git
\* itself refuses a commit that changes nothing, and a push that origin
\* cannot fast-forward).
commit_and_push(branch, addRc, commitRc, showRc, checkoutRc, pushRc) ==
    LET index1 == files
        diffRc == IF index1 = TreeOf(branches[head]) THEN 0 ELSE 1
        rcCommit == IF index1 = TreeOf(branches[head]) THEN 1 ELSE commitRc
        commits1 == Append(commits, [ tree |-> index1, parent |-> branches[head] ])
        branches1 == [ branches EXCEPT ![head] = Len(commits1) ]
        exists == branches1[branch] # 0
        switchOp == IF exists THEN "git checkout" ELSE "git checkout -b"
        branches2 == IF head = branch \/ exists THEN branches1
                     ELSE [ branches1 EXCEPT ![branch] = branches1[head] ]
        files2 == IF head # branch /\ exists THEN commits1[branches1[branch]].tree
                  ELSE files
        index2 == IF head # branch /\ exists THEN commits1[branches1[branch]].tree
                  ELSE index1
        targets == { r \in 1..Len(account) :
                        /\ \E i \in OriginIndexes : r \in ReposAt(remotes[i].url)
                        /\ Ancestor(commits1, account[r].main, branches2[branch]) }
        rcPush == IF pushRc = 0 /\ targets # {} THEN 0 ELSE 1
        account2 == [ r \in 1..Len(account) |->
                        IF r \in targets THEN [ account[r] EXCEPT !.main = branches2[branch] ]
                        ELSE account[r] ]
        c1 == << Call("git add", addRc) >>
        c2 == c1 \o << Call("git diff --cached", diffRc) >>
        c3 == c2 \o << Call("git commit", rcCommit) >>
        c4 == c3 \o << Call("git branch --show-current", showRc) >>
        c5 == IF head = branch THEN c4
              ELSE c4 \o << Call("git rev-parse --verify", IF exists THEN 0 ELSE 128),
                            Call(switchOp, checkoutRc) >>
        c6 == c5 \o << Call("git push", rcPush) >>
    IN  IF Checked(addRc)
        THEN GitState(TRUE, files, index, commits, branches, head, account, c1)
        ELSE IF NothingToCommit(diffRc)
        THEN GitState(FALSE, files, index1, commits, branches, head, account, c2)
        ELSE IF Checked(rcCommit)
        THEN GitState(TRUE, files, index1, commits, branches, head, account, c3)
        ELSE IF Checked(showRc)
        THEN GitState(TRUE, files, index1, commits1, branches1, head, account, c4)
        ELSE IF head # branch /\ Checked(checkoutRc)
        THEN GitState(TRUE, files, index1, commits1, branches1, head, account, c5)
        ELSE IF Checked(rcPush)
        THEN GitState(TRUE, files2, index2, commits1, branches2, branch, account, c6)
        ELSE GitState(FALSE, files2, index2, commits1, branches2, branch, account2, c6)

\* A setup that stops when a grant returns False.
GrantOutcomeAbort(ok, next) == IF ok THEN next ELSE "exited"

\* setup, lines 448-453: the grants' results are dropped; setup goes on to
\* `next` whatever they are.
GrantOutcome(ok, next) == next

\* A setup without the try/except around commit_and_push.
LeavesSetupUncaught(raised) == raised

\* setup, lines 462-466: a CalledProcessError of commit_and_push is caught
\* and printed as a warning; it does not leave setup.
LeavesSetup(raised) == FALSE

\* main, lines 545-557: an exception leaving setup makes the process exit 1;
\* otherwise main returns and the exit code is 0.
ExitCodeOf(raised) == IF raised THEN 1 ELSE 0

\* ------------------------------------------------------------ runs

\* The working copies a behaviour starts from: an empty directory; files
\* without git; a git working copy on master with an origin of its own; a
\* git working copy on master that also has a main branch.
Tree(readme, ignore, code) ==
    [ f \in FileNames |->
        IF f = "README.md" THEN readme
        ELSE IF f = ".gitignore" THEN ignore
        ELSE IF f = "main.py" THEN code
        ELSE Absent ]

OldOrigin == <<"g","i","t","@","e","x","a","m","p","l","e",".","o","r","g",":","o","l","d","/","p","r","o","j",".","g","i","t">>

Workspace(g, rs, fs, cs, bs, h) ==
    [ gitDir |-> g, remotes |-> rs, files |-> fs, commits |-> cs, branches |-> bs,
      head |-> h ]

NoBranches == [ b \in BranchNames |-> 0 ]

InitWorkspaces ==
    { Workspace(FALSE, <<>>, EmptyTree, <<>>, NoBranches, "main"),
      Workspace(FALSE, <<>>, Tree(UserText("mine"), Absent, UserText("v1")), <<>>,
                NoBranches, "main"),
      Workspace(TRUE, << [ name |-> "origin", url |-> OldOrigin ] >>,
                Tree(UserText("mine"), Absent, UserText("v1")),
                << [ tree |-> Tree(UserText("mine"), Absent, UserText("v1")), parent |-> 0 ] >>,
                [ b \in BranchNames |-> IF b = "master" THEN 1 ELSE 0 ], "master"),
      Workspace(TRUE, <<>>,
                Tree(UserText("mine"), Absent, UserText("v2")),
                << [ tree |-> Tree(UserText("mine"), Absent, UserText("v1")), parent |-> 0 ],
                   [ tree |-> Tree(UserText("mine"), Absent, UserText("v2")), parent |-> 1 ] >>,
                [ b \in BranchNames |-> IF b = "master" THEN 2 ELSE 1 ], "master") }

Init ==
    /\ account = <<>>
    /\ \E w \in InitWorkspaces :
         /\ gitDir = w.gitDir
         /\ remotes = w.remotes
         /\ files = w.files
         /\ index = TreeOf2(w.commits, w.branches[w.head])
         /\ commits = w.commits
         /\ branches = w.branches
         /\ head = w.head
    /\ pc = "idle"
    /\ args = NoArgs
    /\ repoData = NoRepo
    /\ calls = <<>>
    /\ steps = <<>>
    /\ warnings = {}
    /\ exitCode = -1
    /\ reported = FALSE
    /\ edited = FALSE
    /\ created = [ n \in { a.repo_name : a \in ArgSets } |-> 0 ]
    /\ rerun = FALSE
    /\ runs = 0

\* The last run printed its summary after a push that succeeded.
PushedLastRun ==
    /\ pc = "exited"
    /\ reported
    /\ exitCode = 0
    /\ calls # <<>>
    /\ calls[Len(calls)] = Call("git push", 0)

\* argparse, line 528: the parser knows one positional argument, repo_name;
\* parse_args() answers any further one with a usage error and exit code 2.
Unrecognized(a) == a.instructions # ""

\* main (lines 528-557): parse the command line, exit 1 without a token,
\* else run setup.  rerun records that the command line is the last run's,
\* that the last run ended with a successful push, and that no file was
\* changed since.
Main ==
    /\ pc \in { "idle", "exited" }
    /\ runs < MaxRuns
    /\ \E a \in ArgSets :
         /\ args' = a
         /\ rerun' = (a.token /\ a = args /\ PushedLastRun /\ ~edited)
         /\ IF Unrecognized(a)
            THEN pc' = "exited" /\ exitCode' = 2
            ELSE IF a.token
            THEN pc' = "create" /\ exitCode' = -1
            ELSE pc' = "exited" /\ exitCode' = ExitCodeOf(TRUE)
    /\ runs' = runs + 1
    /\ repoData' = NoRepo
    /\ calls' = <<>>
    /\ steps' = <<>>
    /\ warnings' = {}
    /\ reported' = FALSE
    /\ edited' = FALSE
    /\ UNCHANGED << remoteVars, localVars, created >>

\* setup, line 445: create_repository; an exception reaches main, which
\* exits 1.
SetupCreateRepository ==
    /\ pc = "create"
    /\ \E resp \in CreateAnswers(args.repo_name), us \in UserStatuses,
          rs \in RepoStatuses(args.repo_name) :
         LET r == create_repository(CreateData(args), resp, us, rs) IN
         /\ calls' = r.calls
         /\ repoData' = r.value
         /\ account' = IF resp.status = 201 THEN Append(account, NewEntry(CreateData(args)))
                       ELSE account
         /\ created' = IF resp.status = 201 /\ ~r.raised
                       THEN [ created EXCEPT ![args.repo_name] = r.value.id ]
                       ELSE created
         /\ IF r.raised
            THEN pc' = "exited" /\ exitCode' = ExitCodeOf(TRUE)
            ELSE pc' = AfterCreate(args) /\ exitCode' = exitCode
    /\ steps' = Append(steps, "create_repository")
    /\ UNCHANGED << localVars, args, warnings, reported, edited, rerun, runs >>

\* setup, lines 448-449: install_github_app; its result is dropped.
SetupInstallGithubApp ==
    /\ pc = "app"
    /\ \E ls \in ListStatuses, listed \in InstallationLists, ast \in AttachStatuses :
         LET r == install_github_app(repoData, args.app_slug, args.installation_id,
                                     ls, listed, ast) IN
         /\ calls' = r.calls
         /\ warnings' = IF r.ok THEN warnings ELSE warnings \cup { "app" }
         /\ pc' = GrantOutcome(r.ok, AfterApp(args))
    /\ steps' = Append(steps, "install_github_app")
    /\ UNCHANGED << remoteVars, localVars, args, repoData, exitCode, reported, edited,
                    created, rerun, runs >>

\* setup, lines 452-453: add_collaborator; its result is dropped.
SetupAddCollaborator ==
    /\ pc = "collab"
    /\ \E st \in CollaboratorStatuses :
         /\ calls' = << Call("PUT /repos/collaborators", st) >>
         /\ warnings' = IF add_collaborator(st) THEN warnings
                        ELSE warnings \cup { "collaborator" }
         /\ pc' = GrantOutcome(add_collaborator(st), "init")
    /\ steps' = Append(steps, "add_collaborator")
    /\ UNCHANGED << remoteVars, localVars, args, repoData, exitCode, reported, edited,
                    created, rerun, runs >>

\* setup, line 456: init_local_repo; a CalledProcessError reaches main,
\* which exits 1.
SetupInitLocalRepo ==
    /\ pc = "init"
    /\ \E initRc \in GitExitCodes, cfgRc \in GitExitCodes, defaultBranch \in BranchNames :
         LET r == init_local_repo(repoData, initRc, cfgRc, defaultBranch) IN
         /\ gitDir' = r.gitDir
         /\ head' = r.head
         /\ remotes' = r.remotes
         /\ calls' = r.calls
         /\ IF r.raised
            THEN pc' = "exited" /\ exitCode' = ExitCodeOf(TRUE)
            ELSE pc' = "files" /\ exitCode' = exitCode
    /\ steps' = Append(steps, "init_local_repo")
    /\ UNCHANGED << remoteVars, files, index, commits, branches, args, repoData,
                    warnings, reported, edited, created, rerun, runs >>

\* setup, line 459: create_initial_files.
SetupCreateInitialFiles ==
    /\ pc = "files"
    /\ LET r == create_initial_files(args.repo_name, args.description) IN
         /\ files' = r.files
         /\ calls' = r.calls
    /\ pc' = "commit"
    /\ steps' = Append(steps, "create_initial_files")
    /\ UNCHANGED << remoteVars, gitDir, remotes, index, commits, branches, head, args,
                    repoData, warnings, exitCode, reported, edited, created, rerun,
                    runs >>

\* setup, lines 462-470: commit_and_push with a CalledProcessError turned
\* into a warning, then the summary; main returns and the process exits 0.
SetupCommitAndPush ==
    /\ pc = "commit"
    /\ \E addRc \in GitExitCodes, commitRc \in GitExitCodes, showRc \in GitExitCodes,
          checkoutRc \in GitExitCodes, pushRc \in GitExitCodes :
         LET r == commit_and_push("main", addRc, commitRc, showRc, checkoutRc, pushRc)
             fatal == r.raised /\ LeavesSetup(r.raised)
         IN
         /\ files' = r.files
         /\ index' = r.index
         /\ commits' = r.commits
         /\ branches' = r.branches
         /\ head' = r.head
         /\ account' = r.account
         /\ calls' = r.calls
         /\ warnings' = IF r.raised /\ ~fatal THEN warnings \cup { "push" } ELSE warnings
         /\ reported' = ~fatal
         /\ exitCode' = ExitCodeOf(fatal)
    /\ steps' = Append(steps, "commit_and_push")
    /\ pc' = "exited"
    /\ UNCHANGED << gitDir, remotes, args, repoData, edited, created, rerun, runs >>

\* Between runs the operator changes a file of the working tree.
OperatorEdit ==
    /\ pc = "exited"
    /\ ~edited
    /\ runs < MaxRuns
    /\ files' = [ files EXCEPT !["main.py"] =
                     IF files["main.py"] = UserText("v2") THEN UserText("v3")
                     ELSE UserText("v2") ]
    /\ edited' = TRUE
    /\ UNCHANGED << remoteVars, gitDir, remotes, index, commits, branches, head, pc,
                    args, repoData, calls, steps, warnings, exitCode, reported, created,
                    rerun, runs >>

Next ==
    \/ Main
    \/ SetupCreateRepository
    \/ SetupInstallGithubApp
    \/ SetupAddCollaborator
    \/ SetupInitLocalRepo
    \/ SetupCreateInitialFiles
    \/ SetupCommitAndPush
    \/ OperatorEdit

Spec == Init /\ [][Next]_vars

\* init_local_repo on any descriptor: the clone URLs repo_data can carry,
\* put together from the two prefixes, an owner/name path and a scheme.
UrlPieces ==
    { HTTPS_PREFIX, SSH_PREFIX,
      <<"a","c","m","e","/","w","i","d","g","e","t","s">>,
      <<"h","t","t","p",":","/","/">> }

CloneUrls ==
    UrlPieces
    \cup { p \o q : p \in UrlPieces, q \in UrlPieces }
    \cup { p \o q \o r : p \in UrlPieces, q \in UrlPieces, r \in UrlPieces }

\* setup about to call init_local_repo(path, repo_data) with a descriptor
\* whose clone URL is any of CloneUrls, in any of the working copies.
UrlInit ==
    /\ account = << [ id |-> 1, name |-> <<"d","e","m","o">>, private |-> TRUE, main |-> 0 ] >>
    /\ \E w \in InitWorkspaces :
         /\ gitDir = w.gitDir
         /\ remotes = w.remotes
         /\ files = w.files
         /\ index = TreeOf2(w.commits, w.branches[w.head])
         /\ commits = w.commits
         /\ branches = w.branches
         /\ head = w.head
    /\ pc = "init"
    /\ args = Args(<<"d","e","m","o">>, "", TRUE, TRUE, TRUE, 0, FALSE)
    /\ \E u \in CloneUrls : repoData = [ Descriptor(account[1]) EXCEPT !.clone_url = u ]
    /\ calls = << Call("POST /user/repos", 201) >>
    /\ steps = << "create_repository" >>
    /\ warnings = {}
    /\ exitCode = -1
    /\ reported = FALSE
    /\ edited = FALSE
    /\ created = [ n \in { a.repo_name : a \in ArgSets } |->
                     IF n = <<"d","e","m","o">> THEN 1 ELSE 0 ]
    /\ rerun = FALSE
    /\ runs = 1

UrlNext == SetupInitLocalRepo

UrlSpec == UrlInit /\ [][UrlNext]_vars

\* ------------------------------------------------------------ claims

Last(s) == s[Len(s)]
Range(s) == { s[i] : i \in 1..Len(s) }
IsPrefix(s, t) == Len(s) <= Len(t) /\ SubSeq(t, 1, Len(s)) = s

\* A 422 whose message contains "already exists", whatever the case.
IsConflict(c) ==
    /\ c.st = 422
    /\ Contains(Lower(IF c.has_message THEN c.message ELSE UNKNOWN_ERROR), ALREADY_EXISTS)

\* The account's entries named n.
Named(acc, n) == { i \in 1..Len(acc) : acc[i].name = n }

\* C1 (CreateStep): create_repository branches on the answer to POST /user/repos: on 201
\* it returns the repository just created and makes no other request; on a
\* 422 whose message contains "already exists" in any case it creates
\* nothing and fetches (GET /user, then GET /repos), returning the account's
\* repository of that name when both answer 200 (a failed fetch is the only
\* fatal outcome of this branch); on any other answer it raises: the run
\* exits 1 after that one request and no descriptor is held.
CreateStep ==
    pc = "create" =>
       LET post == calls'[1] IN
       /\ post.op = "POST /user/repos"
       /\ post.st = 201 =>
             /\ calls' = << post >>
             /\ pc' # "exited" /\ exitCode' # 1
             /\ Len(account') = Len(account) + 1
             /\ repoData' = Descriptor(account'[Len(account')])
             /\ repoData'.name = args.repo_name
       /\ IsConflict(post) =>
             /\ account' = account
             /\ Len(calls') >= 2 /\ calls'[2].op = "GET /user"
             /\ calls'[2].st = 200 => Len(calls') = 3 /\ calls'[3].op = "GET /repos"
             /\ IF calls'[2].st = 200 /\ calls'[3].st = 200
                THEN /\ pc' # "exited" /\ exitCode' # 1
                     /\ repoData'.name = args.repo_name
                     /\ \E i \in Named(account, args.repo_name) :
                            repoData' = Descriptor(account[i])
                ELSE pc' = "exited" /\ exitCode' = 1 /\ repoData' = NoRepo
       /\ (post.st # 201 /\ ~IsConflict(post)) =>
             /\ calls' = << post >>
             /\ account' = account
             /\ pc' = "exited" /\ exitCode' = 1 /\ ~reported'
             /\ repoData' = NoRepo

\* C1: every create step of every run branches on the answer as CreateStep
\* says: 201 returns, a 422 that says already exists is fetched, any other
\* answer is fatal.
C1_CreateBranches == [][CreateStep]_vars

\* C1 witness: a conflict reported in capitals was answered by the fetch,
\* and setup goes on with the fetched descriptor.
C1_Witness ==
    /\ pc # "exited"
    /\ steps = << "create_repository" >>
    /\ Len(calls) = 3
    /\ calls[1].message = MsgExistsCaps
    /\ calls[3] = Call("GET /repos", 200)
    /\ repoData.id # 0

\* The state right after a step that hit one of the fatal conditions.
FatalCondition ==
    \/ runs > 0 /\ ~args.token
    \/ /\ steps # <<>> /\ calls # <<>>
       /\ Last(steps) = "create_repository"
       /\ \/ Last(calls).op = "POST /user/repos" /\ Last(calls).st # 201
             /\ ~IsConflict(Last(calls))
          \/ Last(calls).op = "GET /user" /\ Last(calls).st # 200
          \/ Last(calls).op = "GET /repos" /\ Last(calls).st # 200
    \/ /\ steps # <<>> /\ calls # <<>>
       /\ Last(steps) = "init_local_repo"
       /\ Last(calls).op \in { "git init", "git remote set-url", "git remote add" }
       /\ Last(calls).st # 0

\* C2 (FatalStopped, NothingAfterFatal): after a missing token, a create answer other than 201 or "already
\* exists", a failed GET /user or GET /repos of the fallback, or a failed
\* git init, git remote set-url or git remote add, the run has stopped: the
\* process has exited with code 1, the summary is not printed, the failing
\* call is the last one made, and no further step of this run is taken.
FatalStopped ==
    FatalCondition =>
       /\ pc = "exited" /\ exitCode = 1 /\ ~reported
       /\ ~args.token => steps = <<>> /\ calls = <<>>
       /\ "create_initial_files" \notin Range(steps)
       /\ "commit_and_push" \notin Range(steps)

NothingAfterFatal ==
    exitCode = 1 => (steps' = steps /\ calls' = calls) \/ runs' = runs + 1

\* C2: every fatal condition stops the run with exit code 1 and no summary
\* (FatalStopped), and nothing of the run happens after it
\* (NothingAfterFatal).
C2_FatalStops == []FatalStopped /\ [][NothingAfterFatal]_vars

\* C2 witness: git remote set-url failed after both grants had run.
C2_Witness ==
    /\ pc = "exited" /\ exitCode = 1 /\ ~reported
    /\ steps = << "create_repository", "install_github_app", "add_collaborator",
                  "init_local_repo" >>
    /\ Last(calls) = Call("git remote set-url", 128)

\* C3 (GrantStep, GrantWarned): no answer to a grant request aborts the run.  A grant step never
\* exits, whatever it is answered; a failed listing, a listing without a
\* match, a failed attach and a failed invite each print a warning and
\* setup goes on to the next step; and a run that printed a grant warning
\* ends with workspace initialisation, scaffolding, commit and push done,
\* the summary printed and exit code 0, unless the workspace initialisation
\* itself failed.
GrantStep ==
    pc \in { "app", "collab" } =>
       /\ pc' \in { "collab", "init" } /\ exitCode' = exitCode
       /\ pc' = (IF pc = "app" /\ ~args.no_collaborator THEN "collab" ELSE "init")
       /\ (pc = "app" /\ ( \/ calls' = <<>>
                           \/ /\ calls'[1].op = "GET /user/installations"
                              /\ calls'[1].st = 403
                           \/ /\ Len(calls') = 1
                              /\ calls'[1].op = "GET /user/installations"
                              /\ calls'[1].st = 200
                           \/ Last(calls').op = "PUT /user/installations"
                              /\ Last(calls').st \notin { 204, 304 } ))
            => "app" \in warnings'
       /\ (pc = "collab" /\ calls'[1].st \notin { 201, 204 })
            => "collaborator" \in warnings'

GrantWarned ==
    (pc = "exited" /\ warnings \cap { "app", "collaborator" } # {}) =>
       \/ /\ exitCode = 0 /\ reported
          /\ Len(steps) >= 3
          /\ SubSeq(steps, Len(steps) - 2, Len(steps))
               = << "init_local_repo", "create_initial_files", "commit_and_push" >>
       \/ /\ exitCode = 1
          /\ Last(steps) = "init_local_repo" /\ Last(calls).st # 0

\* C3: no outcome of a grant step aborts the run (GrantStep), and each
\* failed grant leaves a warning (GrantWarned).
C3_GrantsNeverAbort == [][GrantStep]_vars /\ []GrantWarned

\* C3 witness: both grants failed and the run completed.
C3_Witness ==
    /\ pc = "exited" /\ exitCode = 0 /\ reported
    /\ warnings = { "app", "collaborator" }
    /\ Last(calls) = Call("git push", 0)

\* The order setup calls its steps in for a command line.
ExpectedSteps(a) ==
    << "create_repository" >>
    \o (IF a.no_app THEN <<>> ELSE << "install_github_app" >>)
    \o (IF a.no_collaborator THEN <<>> ELSE << "add_collaborator" >>)
    \o << "init_local_repo", "create_initial_files", "commit_and_push" >>

\* origin is configured: one remote named origin, at the SSH address of
\* the repository `name` of the account.
OriginAt(name) ==
    /\ Cardinality(OriginIndexes) = 1
    /\ \A i \in OriginIndexes :
         remotes[i].url = SSH_PREFIX \o Login \o <<"/">> \o name \o <<".","g","i","t">>

\* C4: the steps of a run are taken in the order create/get repository, app
\* grant (if enabled), collaborator grant (if enabled), workspace
\* initialisation, scaffolding, commit and push, each once; a grant is
\* attempted only with a descriptor in hand, scaffolding starts only with
\* origin configured, and the commit step starts only after scaffolding
\* left README.md and .gitignore in place.
C4_StepOrder ==
    /\ IsPrefix(steps, ExpectedSteps(args))
    /\ reported => steps = ExpectedSteps(args)
    /\ pc \in { "app", "collab" } => repoData.id # 0 /\ repoData.name = args.repo_name
    /\ pc = "files" => Last(steps) = "init_local_repo" /\ gitDir /\ OriginAt(args.repo_name)
    /\ pc = "commit" =>
         /\ Last(steps) = "create_initial_files"
         /\ files["README.md"] # Absent /\ files[".gitignore"] # Absent
         /\ OriginAt(args.repo_name)

\* C4 witness: a run with both grants enabled took all six steps.
C4_Witness ==
    /\ reported
    /\ steps = << "create_repository", "install_github_app", "add_collaborator",
                  "init_local_repo", "create_initial_files", "commit_and_push" >>

\* The operations among the calls cs.
Ops(cs) == { cs[i].op : i \in 1..Len(cs) }

\* C5 (RerunStep): a run that repeats the command line of the last run,
\* which ended with a successful push, with no file changed since, creates
\* no repository and gets its descriptor from the fallback fetch, keeps the
\* one origin remote, leaves README.md and .gitignore as they are, makes no
\* commit, attempts no push and prints the summary with exit code 0.
RerunStep ==
    rerun =>
       /\ pc = "create" =>
             /\ account' = account
             /\ pc' # "exited" =>
                   /\ Ops(calls') = { "POST /user/repos", "GET /user", "GET /repos" }
                   /\ repoData'.id = created[args.repo_name]
       /\ (pc = "init" /\ pc' = "files") =>
             /\ "git remote add" \notin Ops(calls')
             /\ Len(remotes') = Len(remotes)
             /\ Cardinality(OriginIndexes') = 1
       /\ pc = "files" => files' = files
       /\ pc = "commit" =>
             /\ commits' = commits
             /\ "git commit" \notin Ops(calls') /\ "git push" \notin Ops(calls')
             /\ reported' /\ exitCode' = 0

\* C5: every step of an identical second run after a successful push is a
\* no-op in the sense of RerunStep.
C5_RerunIdempotent == [][RerunStep]_vars

\* C6 (SecondCreate): create_repository called for a name that an earlier
\* call created leaves the account with exactly one repository of that
\* name; answered by the conflict and by 200 to both fetches it raises
\* nothing and returns the id the creating call returned, and it exits only
\* when the conflict is not reported or a fetch is not answered 200.
SecondCreate ==
    (pc = "create" /\ created[args.repo_name] # 0) =>
       /\ Cardinality(Named(account', args.repo_name)) = 1
       /\ Len(account') = Len(account)
       /\ pc' = "exited" =>
             \/ ~IsConflict(calls'[1])
             \/ /\ Last(calls').op \in { "GET /user", "GET /repos" }
                /\ Last(calls').st # 200
       /\ pc' # "exited" =>
             /\ exitCode' # 1
             /\ repoData'.id = created[args.repo_name]

\* C6: every second create_repository for a name satisfies SecondCreate.
C6_CreateTwice == [][SecondCreate]_vars

\* C6 witness: the second call for a name returned the id of the first.
C6_Witness ==
    /\ runs = 2
    /\ steps = << "create_repository" >>
    /\ pc # "exited"
    /\ Ops(calls) = { "POST /user/repos", "GET /user", "GET /repos" }
    /\ repoData.id # 0
    /\ repoData.id = created[args.repo_name]

\* C7 (ScaffoldStep): create_initial_files leaves a README.md and a
\* .gitignore that exist exactly as they are, in every working copy and
\* run; it changes a file only when that file is README.md or .gitignore
\* and is absent, and then writes the template.
ScaffoldStep ==
    pc = "files" =>
       \A f \in FileNames :
          /\ files[f] # Absent => files'[f] = files[f]
          /\ files'[f] # files[f] =>
                /\ f \in { "README.md", ".gitignore" }
                /\ files'[f] = (IF f = "README.md"
                                THEN ReadmeContent(args.repo_name, args.description)
                                ELSE GitignoreContent)

\* C7: every create_initial_files step leaves existing README.md and
\* .gitignore as they are (ScaffoldStep).
C7_NeverOverwrites == [][ScaffoldStep]_vars

\* C7 witness: the scaffold kept the operator's README.md and wrote the
\* missing .gitignore.
C7_Witness ==
    /\ pc = "commit"
    /\ files["README.md"] = UserText("mine")
    /\ files[".gitignore"] = GitignoreContent
    /\ calls = << Call("write .gitignore", 0) >>

\* C8 (NoOpStep): when the working tree staged by git add equals the tree
\* of the last commit, commit_and_push runs git add and git diff only: no
\* commit, no branch switched or created, no push, nothing changed locally
\* or at origin.
NoOpStep ==
    (pc = "commit" /\ files = TreeOf(branches[head]) /\ calls'[1] = Call("git add", 0)) =>
       /\ calls' = << Call("git add", 0), Call("git diff --cached", 0) >>
       /\ commits' = commits
       /\ branches' = branches
       /\ head' = head
       /\ files' = files
       /\ account' = account
       /\ warnings' = warnings

\* C8: every commit_and_push step over an unchanged tree is a no-op
\* (NoOpStep).
C8_NothingToCommit == [][NoOpStep]_vars

\* C8 witness: a run over a committed tree ended after git diff.
C8_Witness ==
    /\ pc = "exited" /\ reported
    /\ branches[head] # 0
    /\ calls = << Call("git add", 0), Call("git diff --cached", 0) >>

\* C9 (PushFailedStep): when git push fails after the commit was made, the
\* commit stays on the branch it was made on, a warning is printed, the
\* summary is printed and the process exits with code 0.
PushFailedStep ==
    (pc = "commit" /\ Last(calls').op = "git push" /\ Last(calls').st # 0) =>
       /\ Len(commits') = Len(commits) + 1
       /\ Last(commits') = [ tree |-> files, parent |-> branches[head] ]
       /\ branches'[head] = Len(commits')
       /\ account' = account
       /\ "push" \in warnings'
       /\ reported' /\ exitCode' = 0 /\ pc' = "exited"

\* C9: every failed push after a commit ends in a warning, the summary and
\* exit code 0 (PushFailedStep).
C9_PushFailureWarns == [][PushFailedStep]_vars

\* C9 witness: a run ended with a failed push, a warning and the summary.
C9_Witness ==
    /\ pc = "exited" /\ reported /\ exitCode = 0
    /\ calls # <<>> /\ Last(calls) = Call("git push", 1)
    /\ "push" \in warnings
    /\ commits # <<>>

\* The SSH address of an HTTPS clone URL: the prefix swapped, the rest kept.
SshEquivalent(url) == SSH_PREFIX \o SubSeq(url, Len(HTTPS_PREFIX) + 1, Len(url))

\* C10 (InitStep, OriginKept): every init_local_repo that runs to its end,
\* the first and each later one, leaves exactly one remote named origin, at
\* the SSH equivalent of the descriptor's clone URL; it runs set-url exactly
\* when origin exists and add exactly when it does not, so add never runs
\* on a working copy that has an origin; and origin stays so to the end of
\* the run.
InitStep ==
    pc = "init" =>
       /\ "git remote set-url" \in Ops(calls') => OriginIndexes # {}
       /\ "git remote add" \in Ops(calls') => OriginIndexes = {}
       /\ pc' = "files" =>
             /\ Cardinality(OriginIndexes') = 1
             /\ \A i \in OriginIndexes' : remotes'[i].url = SshEquivalent(repoData.clone_url)
             /\ Len(remotes') = Len(remotes) + (IF OriginIndexes = {} THEN 1 ELSE 0)

OriginKept ==
    (pc \in { "files", "commit" } \/ reported) =>
       /\ Cardinality(OriginIndexes) = 1
       /\ \A i \in OriginIndexes : remotes[i].url = SshEquivalent(repoData.clone_url)

\* C10: every init_local_repo leaves exactly one origin at the SSH URL
\* (InitStep), and it stays so (OriginKept).
C10_OneOrigin == [][InitStep]_vars /\ []OriginKept

\* C10 witness: init_local_repo ran again on the same descriptor and
\* updated origin in place.
C10_Witness ==
    /\ rerun
    /\ pc = "files"
    /\ calls = << Call("git remote get-url", 0), Call("git remote set-url", 0) >>
    /\ Len(remotes) = 1
    /\ remotes[1].url = SshEquivalent(repoData.clone_url)

\* The clone URL with its leading "https://github.com/", and nothing else,
\* replaced by "git@github.com:"; a URL without that start unchanged.
LeadingPrefixReplaced(url) ==
    IF Len(url) >= Len(HTTPS_PREFIX) /\ SubSeq(url, 1, Len(HTTPS_PREFIX)) = HTTPS_PREFIX
    THEN SSH_PREFIX \o SubSeq(url, Len(HTTPS_PREFIX) + 1, Len(url))
    ELSE url

UrlStep ==
    (pc = "init" /\ pc' = "files") =>
       /\ OriginIndexes' # {}
       /\ \A i \in OriginIndexes' :
             remotes'[i].url = LeadingPrefixReplaced(repoData.clone_url)

ListedBy(c) == IF c.st = 200 THEN c.listed ELSE <<>>

\* The requested slug is in the installation's app slug or, when the entry
\* has no app slug, in its account login; case ignored.
MatchesSlugElseLogin(inst, slug) ==
    Contains(Lower(IF inst.app_slug # <<>> THEN inst.app_slug ELSE inst.login), Lower(slug))

\* The requested slug is in the installation's app slug or in its account
\* login, whichever; case ignored.
MatchesEither(inst, slug) ==
    \/ Contains(Lower(inst.app_slug), Lower(slug))
    \/ Contains(Lower(inst.login), Lower(slug))

\* The positions of insts that match, and the first of them.
HitsSlugElseLogin(insts, slug) ==
    { i \in 1..Len(insts) : MatchesSlugElseLogin(insts[i], slug) }
HitsEither(insts, slug) ==
    { i \in 1..Len(insts) : MatchesEither(insts[i], slug) }
First(hits) == CHOOSE i \in hits : \A j \in hits : i <= j

\* The app step without an installation id: one listing; then one attach,
\* to the id of the first installation of `hits`, or no attach and a
\* warning when `hits` is empty.
LookupAttaches(insts, hits) ==
    /\ calls'[1].op = "GET /user/installations"
    /\ "GET /user/installations" \notin { calls'[i].op : i \in 2..Len(calls') }
    /\ IF hits = {}
       THEN Len(calls') = 1 /\ "app" \in warnings'
       ELSE /\ Len(calls') = 2
            /\ calls'[2].op = "PUT /user/installations"
            /\ calls'[2].target = insts[First(hits)].id

LookupStepEither ==
    (pc = "app" /\ args.installation_id = 0) =>
       LookupAttaches(ListedBy(calls'[1]), HitsEither(ListedBy(calls'[1]), args.app_slug))

LookupStep ==
    (pc = "app" /\ args.installation_id = 0) =>
       LookupAttaches(ListedBy(calls'[1]),
                      HitsSlugElseLogin(ListedBy(calls'[1]), args.app_slug))

\* C12 as claimed: without an installation id the repository is attached
\* to the first listed installation whose app slug or whose account login
\* contains the requested slug, either field counting, and no attach call
\* is made exactly when no listed installation matches on either field.
C12_EitherField == [][LookupStepEither]_vars

\* C12 as amended: the account login counts only for an installation that
\* has no app slug.  The repository is attached to the first listed
\* installation whose app slug, or whose account login when it has no app
\* slug, contains the requested slug case-insensitively, and no attach call
\* is made exactly when none does.
C12_SlugElseLogin == [][LookupStep]_vars

\* C12 witness: the first match was an entry without app slug, matched by
\* its login in another case, and the repository was attached to its id.
C12_Witness ==
    /\ steps # <<>> /\ Last(steps) = "install_github_app"
    /\ args.installation_id = 0
    /\ Len(calls) = 2
    /\ calls[1].listed = << InstLogin, InstClaude >>
    /\ calls[2].target = 5

\* C13: a run that was given instructions and ended without a fatal error
\* (exit code 1: no token, create or workspace initialisation failed) went
\* through the scaffold step, and the instructions file then holds the
\* instructions verbatim, on a first run and on every rerun.
C13_InstructionsWritten ==
    (args.instructions # "" /\ pc = "exited" /\ exitCode # 1) =>
       /\ \E i \in 1..Len(steps) : steps[i] = "create_initial_files"
       /\ files[InstructionsFile] = UserText(args.instructions)

VisibilityStep ==
    (pc = "create" /\ calls'[1].st = 201) =>
       /\ Len(account') = Len(account) + 1
       /\ Last(account').private = ~args.public
       /\ repoData'.private = ~args.public

\* C14: the repository a create step creates was requested with the
\* visibility of the command line: private without --public, public
\* (private false) with it (VisibilityStep).
C14_VisibilityRequested == [][VisibilityStep]_vars

DirectStep ==
    (pc = "app" /\ args.installation_id # 0) =>
       /\ Len(calls') = 1
       /\ calls'[1].op = "PUT /user/installations"
       /\ calls'[1].target = args.installation_id
       /\ ("app" \notin warnings') <=> (calls'[1].st \in { 204, 304 })
       /\ pc' # "exited" /\ exitCode' = exitCode

\* C15: with an installation id on the command line (an id as GitHub
\* issues them, not 0) the app step makes one request, the attach to that
\* id, and no listing; it succeeds exactly when the answer is 204 or 304,
\* warns on every other answer, and never ends the run (DirectStep).
C15_DirectAttach == [][DirectStep]_vars

\* C15 witness: the attach to the given id was answered 304, already
\* attached, and counted as a success.
C15_Witness ==
    /\ steps # <<>> /\ Last(steps) = "install_github_app"
    /\ args.installation_id = 7
    /\ calls = << Attach(7, 304) >>
    /\ "app" \notin warnings
    /\ pc = "init"

\* The remote requests and the push, each with the step of setup that
\* issues it.
IssuedBy ==
    [ op \in { "POST /user/repos", "GET /user", "GET /repos", "GET /user/installations",
               "PUT /user/installations", "PUT /repos/collaborators", "git push" } |->
        CASE op \in { "POST /user/repos", "GET /user", "GET /repos" } -> "create_repository"
          [] op \in { "GET /user/installations", "PUT /user/installations" } -> "install_github_app"
          [] op = "PUT /repos/collaborators" -> "add_collaborator"
          [] OTHER -> "commit_and_push" ]

\* C16: within a run no remote request and no push is issued twice,
\* whatever it was answered: each step of setup is taken at most once in a
\* run, each request belongs to one step, and among the calls of a step no
\* request and no push occurs twice.
C16_NoRetry ==
    /\ \A i, j \in 1..Len(steps) : steps[i] = steps[j] => i = j
    /\ \A i \in 1..Len(calls) :
          calls[i].op \in DOMAIN IssuedBy =>
             /\ Last(steps) = IssuedBy[calls[i].op]
             /\ \A j \in 1..Len(calls) : calls[j].op = calls[i].op => i = j

\* C16 witness: a create request answered by a server error was issued
\* once and the run ended.
C16_Witness ==
    /\ pc = "exited" /\ exitCode = 1
    /\ steps = << "create_repository" >>
    /\ calls = << Post(CreateResponse(500, FALSE, <<>>)) >>

\* The repositories of the account that origin addresses.
AtOrigin == { r \in 1..Len(account) : \E i \in OriginIndexes : r \in ReposAt(remotes[i].url) }

DeliveredStep ==
    (/\ pc = "commit"
     /\ Len(commits') = Len(commits) + 1
     /\ Last(calls') = Call("git push", 0)) =>
       /\ Ancestor(commits', Len(commits'), branches'["main"])
       /\ \A r \in AtOrigin : Ancestor(commits', Len(commits'), account'[r].main)

\* C17: whenever commit_and_push makes a commit and its push succeeds, the
\* commit just made is on the branch pushed, locally and at origin, from
\* every starting branch state (DeliveredStep).
C17_PushedBranchHasCommit == [][DeliveredStep]_vars

\* The local commits origin's main does not hold.
Undelivered ==
    { c \in 1..Len(commits) :
         \/ AtOrigin = {}
         \/ \E r \in AtOrigin : ~Ancestor(commits, c, account[r].main) }

UndeliveredStep ==
    (/\ pc = "commit"
     /\ Undelivered # {}
     /\ files = TreeOf(branches[head])
     /\ calls'[1] = Call("git add", 0)) =>
       /\ calls' = << Call("git add", 0), Call("git diff --cached", 0) >>
       /\ account' = account
       /\ Undelivered' = Undelivered
       /\ reported' /\ exitCode' = 0 /\ pc' = "exited"
       /\ "push" \notin warnings'

\* C18: while a local commit is not at origin, as after a run whose push
\* failed, every run whose working tree has no new changes (the tree git
\* add stages is the tree of the last commit of the checked-out branch)
\* takes the nothing-to-commit path: no commit, no push attempt, origin
\* unchanged, the commit still undelivered, and the summary printed with
\* exit code 0 and no warning (UndeliveredStep).
C18_UnpushedStays == [][UndeliveredStep]_vars

\* C18 witness: the first run made the first commit of a new working copy
\* on main and did not get it to origin; the second run found nothing to
\* commit and reported completion, with origin's main still empty.
C18_Witness ==
    /\ runs = 2
    /\ pc = "exited" /\ reported /\ exitCode = 0
    /\ calls = << Call("git add", 0), Call("git diff --cached", 0) >>
    /\ Len(commits) = 1 /\ branches["main"] = 1 /\ branches["master"] = 0
    /\ AtOrigin # {}
    /\ \A r \in AtOrigin : account[r].main = 0

\* The git commands of commit_and_push, push aside, that raise on failure.
CheckedBeforePush ==
    { "git add", "git commit", "git branch --show-current", "git checkout",
      "git checkout -b" }

OtherFailureStep ==
    pc = "commit" =>
       \A i \in 1..Len(calls') :
          (calls'[i].op \in CheckedBeforePush /\ calls'[i].st # 0) =>
             /\ i = Len(calls')
             /\ account' = account
             /\ "push" \in warnings'
             /\ reported' /\ exitCode' = 0 /\ pc' = "exited"

\* C19: a failure of git add, git commit, git branch --show-current or git
\* checkout inside commit_and_push ends the method there, with no push, and
\* is handled like a push failure: the warning and the summary are printed
\* and the process exits with code 0 (OtherFailureStep).
C19_OtherGitFailuresWarn == [][OtherFailureStep]_vars

\* C19 witness: git checkout failed after the commit, and the run ended
\* with the warning, the summary and exit code 0.
C19_Witness ==
    /\ pc = "exited" /\ reported /\ exitCode = 0
    /\ calls # <<>> /\ Last(calls) = Call("git checkout", 128)
    /\ "git commit" \in Ops(calls)
    /\ "push" \in warnings

====
